---- MODULE Spec2Model ----
(***************************************************************************)
(* Model of importarPropriedades.js: a CSV reader emits rows, each row is  *)
(* validated and mapped to a HubSpot property definition, the definition   *)
(* is POSTed asynchronously, every outcome is appended to creationResults  *)
(* and the stream's end / error event renders the accumulated results.     *)
(*                                                                         *)
(* A JavaScript string is a sequence of one-character strings; the value   *)
(* undefined is the one-element sequence Undefined, which no string        *)
(* equals.  Literal text that the program only concatenates is kept as a   *)
(* single multi-character element.                                         *)
(***************************************************************************)
EXTENDS Integers, Sequences, FiniteSets, TLC

\* ---------------------------------------------------------------- bounds
MaxRows == 2
MaxOptLen == 3

\* ------------------------------------------------------- string runtime
Undefined == <<"<undefined>">>

\* JavaScript truthiness of a string-or-undefined value
Truthy(v) == v # Undefined /\ v # <<>>

\* `${v}` : template-literal conversion of a string-or-undefined value
TemplateStr(v) == IF v = Undefined THEN <<"u","n","d","e","f","i","n","e","d">> ELSE v

\* a || b
OrElse(a, b) == IF Truthy(a) THEN a ELSE b

UpperChars == <<"A","B","C","D","E","F","G","H","I","J","K","L","M",
                "N","O","P","Q","R","S","T","U","V","W","X","Y","Z">>
LowerChars == <<"a","b","c","d","e","f","g","h","i","j","k","l","m",
                "n","o","p","q","r","s","t","u","v","w","x","y","z">>

LowerChar(c) == IF \E k \in 1..26 : UpperChars[k] = c
                THEN LowerChars[CHOOSE k \in 1..26 : UpperChars[k] = c]
                ELSE c

UpperChar(c) == IF \E k \in 1..26 : LowerChars[k] = c
                THEN UpperChars[CHOOSE k \in 1..26 : LowerChars[k] = c]
                ELSE c

\* String.prototype.toLowerCase / toUpperCase
toLowerCase(s) == [k \in 1..Len(s) |-> LowerChar(s[k])]
toUpperCase(s) == [k \in 1..Len(s) |-> UpperChar(s[k])]

WhiteSpace == {" ", "\t"}

\* String.prototype.trim
trim(s) ==
  IF \A k \in 1..Len(s) : s[k] \in WhiteSpace
  THEN <<>>
  ELSE LET first == CHOOSE k \in 1..Len(s) :
                      /\ s[k] \notin WhiteSpace
                      /\ \A j \in 1..(k-1) : s[j] \in WhiteSpace
           last  == CHOOSE k \in 1..Len(s) :
                      /\ s[k] \notin WhiteSpace
                      /\ \A j \in (k+1)..Len(s) : s[j] \in WhiteSpace
       IN SubSeq(s, first, last)

\* v?.trim()
OptTrim(v) == IF v = Undefined THEN Undefined ELSE trim(v)

\* v?.trim()?.toLowerCase()
OptTrimLower(v) == IF v = Undefined THEN Undefined ELSE toLowerCase(trim(v))

\* String.prototype.charAt(0) and slice(1)
charAt0(s) == IF Len(s) = 0 THEN <<>> ELSE <<s[1]>>
slice1(s) == SubSeq(s, 2, Len(s))

\* String.prototype.split('|')
RECURSIVE split(_)
split(s) ==
  IF \A k \in 1..Len(s) : s[k] # "|"
  THEN <<s>>
  ELSE LET i == CHOOSE k \in 1..Len(s) :
                  /\ s[k] = "|"
                  /\ \A j \in 1..(k-1) : s[j] # "|"
       IN <<SubSeq(s, 1, i-1)>> \o split(SubSeq(s, i+1, Len(s)))

\* --------------------------------------------------------- buildOptions
\* buildOption with the value taken from the untrimmed piece
buildOption_NoTrim(opt) ==
  [label |-> toUpperCase(charAt0(trim(opt))) \o slice1(trim(opt)),
   value |-> toLowerCase(opt)]

buildOption(opt) ==
  [label |-> toUpperCase(charAt0(trim(opt))) \o slice1(trim(opt)),
   value |-> toLowerCase(trim(opt))]

buildOptions(optionString) ==
  LET pieces == split(optionString)
  IN [k \in 1..Len(pieces) |-> buildOption(pieces[k])]

\* ------------------------------------------------------------ BASE_URLS
S_contact == <<"c","o","n","t","a","c","t">>
S_deal == <<"d","e","a","l">>
S_ticket == <<"t","i","c","k","e","t">>
S_constructor == <<"c","o","n","s","t","r","u","c","t","o","r">>
S_proto == <<"_","_","p","r","o","t","o","_","_">>

\* own properties of the object literal
BaseUrlKeys == {S_contact, S_deal, S_ticket}

\* BASE_URLS is a plain object literal, so a lookup that misses the own
\* properties continues in Object.prototype.  These are the members of
\* Object.prototype whose names survive toLowerCase(); each is a function or
\* an object, hence truthy.
ObjectPrototypeKeys == {S_constructor, S_proto}

\* BASE_URLS[key]
BASE_URLS(key) ==
  IF key = S_contact THEN <<"https://api.hubapi.com/properties/v1/contacts/properties">>
  ELSE IF key = S_deal THEN <<"https://api.hubspot.com/properties/v1/deals/properties">>
  ELSE IF key = S_ticket THEN <<"https://api.hubspot.com/crm/v3/properties/tickets">>
  ELSE IF key \in ObjectPrototypeKeys THEN <<"<Object.prototype member>">> \o key
  ELSE Undefined

\* !objectType || !BASE_URLS[objectType]
IsInvalidObject(objectType) ==
  \/ ~Truthy(objectType)
  \/ ~Truthy(BASE_URLS(objectType))

\* -------------------------------------------------------- result status
STATUS_SUCCESS == "Sucesso"
STATUS_FAILURE == "Falha"
STATUS_INVALID == "Objeto Invalido / Linha Ignorada"
STATUS_CRITICAL == "Erro Critico"

NA == <<"N","/","A">>

\* ------------------------------------------------------ property mapper
\* BuildDefinition without the test that the options column is non-empty
BuildDefinition_OptionsUnchecked(row) ==
  LET propriedade == [name |-> OptTrim(row.name),
                      label |-> OptTrim(row.label),
                      description |-> OptTrim(row.description),
                      groupName |-> OptTrim(row.groupName),
                      type |-> OptTrim(row.type),
                      fieldType |-> OptTrim(row.fieldType),
                      formField |-> TRUE]
      withOptions ==
        IF propriedade.type = <<"e","n","u","m","e","r","a","t","i","o","n">>
        THEN propriedade @@ [options |-> buildOptions(IF row.options = Undefined
                                                       THEN <<>> ELSE row.options)]
        ELSE propriedade
  IN IF propriedade.type = <<"n","u","m","b","e","r">>
        /\ propriedade.fieldType = <<"n","u","m","b","e","r">>
     THEN withOptions @@ [numberDisplayHint |-> <<"n","u","m","b","e","r">>]
     ELSE withOptions

\* BuildDefinition with the display hint decided by the type alone
BuildDefinition_HintOnType(row) ==
  LET propriedade == [name |-> OptTrim(row.name),
                      label |-> OptTrim(row.label),
                      description |-> OptTrim(row.description),
                      groupName |-> OptTrim(row.groupName),
                      type |-> OptTrim(row.type),
                      fieldType |-> OptTrim(row.fieldType),
                      formField |-> TRUE]
      withOptions ==
        IF propriedade.type = <<"e","n","u","m","e","r","a","t","i","o","n">>
           /\ Truthy(row.options)
        THEN propriedade @@ [options |-> buildOptions(row.options)]
        ELSE propriedade
  IN IF propriedade.type = <<"n","u","m","b","e","r">>
     THEN withOptions @@ [numberDisplayHint |-> <<"n","u","m","b","e","r">>]
     ELSE withOptions

\* const propriedade = {...}; options and numberDisplayHint are added as
\* own keys only under their conditions
BuildDefinition(row) ==
  LET propriedade == [name |-> OptTrim(row.name),
                      label |-> OptTrim(row.label),
                      description |-> OptTrim(row.description),
                      groupName |-> OptTrim(row.groupName),
                      type |-> OptTrim(row.type),
                      fieldType |-> OptTrim(row.fieldType),
                      formField |-> TRUE]
      S_enumeration == <<"e","n","u","m","e","r","a","t","i","o","n">>
      S_number == <<"n","u","m","b","e","r">>
      withOptions ==
        IF propriedade.type = S_enumeration /\ Truthy(row.options)
        THEN propriedade @@ [options |-> buildOptions(row.options)]
        ELSE propriedade
  IN IF propriedade.type = S_number /\ propriedade.fieldType = S_number
     THEN withOptions @@ [numberDisplayHint |-> S_number]
     ELSE withOptions

\* the record pushed for a row that fails validation
InvalidRecord(row) ==
  LET objectType == OptTrimLower(row.objectType)
      propertyName == OptTrim(row.name)
  IN [objectType |-> OrElse(objectType, NA),
      name |-> OrElse(propertyName, NA),
      label |-> OrElse(OptTrim(row.label), NA),
      status |-> STATUS_INVALID,
      errorMessage |-> <<"Objeto '">> \o TemplateStr(objectType)
                       \o <<"' nao reconhecido ou linha CSV incompleta.">>]

\* ------------------------------------------------------------ submitter
\* The settlement of axios.post: ok = the promise resolved (2xx); otherwise
\* the rejection carries error.message and, when the server answered,
\* error.response with its parsed body error.response.data.
NoBody == [kind |-> "none", text |-> <<>>]
StringBody(t) == [kind |-> "string", text |-> t]
ObjectBody(t) == [kind |-> "object", text |-> t]

Outcomes ==
  { [ok |-> TRUE, hasResponse |-> TRUE, data |-> NoBody, message |-> <<>>],
    [ok |-> FALSE, hasResponse |-> FALSE, data |-> NoBody,
     message |-> <<"Network Error">>],
    [ok |-> FALSE, hasResponse |-> TRUE, data |-> StringBody(<<>>),
     message |-> <<"Request failed with status code 500">>],
    [ok |-> FALSE, hasResponse |-> TRUE, data |-> StringBody(<<"x">>),
     message |-> <<"Request failed with status code 502">>],
    [ok |-> FALSE, hasResponse |-> TRUE, data |-> ObjectBody(<<"x">>),
     message |-> <<"Request failed with status code 409">>] }

\* truthiness of error.response?.data
BodyTruthy(outcome) ==
  /\ outcome.hasResponse
  /\ \/ outcome.data.kind = "object"
     \/ outcome.data.kind = "string" /\ outcome.data.text # <<>>

\* JSON.stringify(body, null, 2) of a string or of an object {message: text}
JSONStringify(body) ==
  IF body.kind = "object"
  THEN <<"{\n  \"message\": \"">> \o body.text \o <<"\"\n}">>
  ELSE <<"\"">> \o body.text \o <<"\"">>

\* ExtractErrorMessage that never looks at the response
ExtractErrorMessage_MessageOnly(outcome) == outcome.message

\* error.response?.data ? JSON.stringify(error.response.data, null, 2) : error.message
ExtractErrorMessage(outcome) ==
  IF BodyTruthy(outcome) THEN JSONStringify(outcome.data) ELSE outcome.message

\* createProperty that records a failure in the catch block and again in
\* the finally block
createProperty_PushInCatchAndFinally(objectType, data, outcome) ==
  LET record == [objectType |-> objectType,
                 name |-> data.name,
                 label |-> data.label,
                 status |-> IF outcome.ok THEN STATUS_SUCCESS ELSE STATUS_FAILURE,
                 errorMessage |-> IF outcome.ok THEN <<>>
                                  ELSE ExtractErrorMessage(outcome)]
  IN [pushed |-> IF outcome.ok THEN <<record>> ELSE <<record, record>>,
      threw |-> FALSE]

\* createProperty with the push inside the try block, after the await
createProperty_PushInTry(objectType, data, outcome) ==
  [pushed |-> IF outcome.ok
              THEN << [objectType |-> objectType,
                       name |-> data.name,
                       label |-> data.label,
                       status |-> STATUS_SUCCESS,
                       errorMessage |-> <<>>] >>
              ELSE <<>>,
   threw |-> FALSE]

\* createProperty whose catch clause only takes errors that carry a response
createProperty_CatchResponseOnly(objectType, data, outcome) ==
  LET caught == ~outcome.ok /\ outcome.hasResponse
  IN [pushed |-> << [objectType |-> objectType,
                     name |-> data.name,
                     label |-> data.label,
                     status |-> IF outcome.ok THEN STATUS_SUCCESS ELSE STATUS_FAILURE,
                     errorMessage |-> IF caught THEN ExtractErrorMessage(outcome)
                                      ELSE <<>>] >>,
      threw |-> ~outcome.ok /\ ~caught]

\* createProperty from the settlement of its POST on: pushed is what the
\* finally block appends to creationResults, threw tells whether an exception
\* leaves the function (the catch clause takes every rejection).
createProperty(objectType, data, outcome) ==
  LET status == IF outcome.ok THEN STATUS_SUCCESS ELSE STATUS_FAILURE
      errorMessage == IF outcome.ok THEN <<>> ELSE ExtractErrorMessage(outcome)
  IN [pushed |-> << [objectType |-> objectType,
                     name |-> data.name,
                     label |-> data.label,
                     status |-> status,
                     errorMessage |-> errorMessage] >>,
      threw |-> FALSE]

\* -------------------------------------------------------- report writer
ReportBlock(result) ==
  LET statusColor == IF result.status = STATUS_SUCCESS THEN "green"
                     ELSE IF result.status = "Objeto Invalido" THEN "orange"
                     ELSE "red"
      block == [objectType |-> TemplateStr(result.objectType),
                name |-> TemplateStr(result.name),
                label |-> TemplateStr(result.label),
                status |-> result.status,
                statusColor |-> statusColor]
  IN IF Truthy(result.errorMessage)
     THEN block @@ [errorMessage |-> result.errorMessage]
     ELSE block

\* generatePdfReport whose loop stops one result early
generatePdfReport_DropLast(results) ==
  [placeholder |-> Len(results) = 0,
   blocks |-> [k \in 1..(Len(results) - 1) |-> ReportBlock(results[k])]]

\* generatePdfReport whose emptiness test is off by one
generatePdfReport_EmptyUpToOne(results) ==
  [placeholder |-> Len(results) <= 1,
   blocks |-> IF Len(results) <= 1 THEN <<>>
              ELSE [k \in 1..Len(results) |-> ReportBlock(results[k])]]

\* the document generatePdfReport(results) writes
generatePdfReport(results) ==
  [placeholder |-> Len(results) = 0,
   blocks |-> [k \in 1..Len(results) |-> ReportBlock(results[k])]]

\* ---------------------------------------------------------- input rows
\* what csv-parser hands to the data handler: every column is a string, or
\* undefined when the line is shorter than the header
Row(objectType, name, label, type, fieldType, options) ==
  [objectType |-> objectType, name |-> name, label |-> label,
   description |-> <<" ","d">>, groupName |-> <<"g">>,
   type |-> type, fieldType |-> fieldType, options |-> options]

S_string == <<"s","t","r","i","n","g">>
S_text == <<"t","e","x","t">>
S_select == <<"s","e","l","e","c","t">>
S_numberT == <<"n","u","m","b","e","r">>
S_enumerationT == <<"e","n","u","m","e","r","a","t","i","o","n">>
S_YesNo == <<"Y","e","s","|","N","o">>

RowContact == Row(<<" ","C","o","n","t","a","c","t">>, <<"a"," ">>, <<"A">>,
                  S_string, S_text, <<>>)
RowLead == Row(<<"l","e","a","d">>, <<"b">>, <<"B">>, S_string, S_text, <<>>)
RowDealEnum == Row(S_deal, <<"c">>, <<"C">>, S_enumerationT, S_select, S_YesNo)
RowShort == Row(Undefined, Undefined, Undefined, Undefined, Undefined, Undefined)
RowTicketNumber == Row(S_ticket, <<"d">>, Undefined, S_numberT, S_numberT, <<>>)
RowConstructor == Row(S_constructor, <<"e">>, <<"E">>, S_string, S_text, <<>>)

SampleRows == {RowContact, RowLead, RowDealEnum, RowShort, RowTicketNumber,
               RowConstructor}

\* the files of the concurrent specification
SampleFiles == UNION {[1..n -> SampleRows] : n \in 0..MaxRows}

\* the three-row file of the end-to-end scenario
E2EFile == <<RowContact, RowLead, RowDealEnum>>

\* rows of the mapper specification: every combination of type, fieldType
\* and options string
OptAlphabet == {"a", "B", "|", " "}
OptStrings == UNION {[1..n -> OptAlphabet] : n \in 0..MaxOptLen}
               \cup {S_YesNo, Undefined}
MapperTypes == {Undefined, S_numberT, <<" ">> \o S_numberT,
                <<"N","u","m","b","e","r">>, S_enumerationT,
                S_enumerationT \o <<" ">>, S_string}
MapperFieldTypes == {Undefined, S_numberT, S_numberT \o <<"\t">>, S_select, S_text}
MapperRows == {Row(S_contact, <<"p">>, <<"P">>, t, f, o) :
                 t \in MapperTypes, f \in MapperFieldTypes, o \in OptStrings}

\* messages of the errors the CSV parser can raise
ParserErrors == {<<"Row exceeds the maximum size">>}

\* ---------------------------------------------------------------- state
VARIABLES
  file,             \* the rows of propriedades.csv
  pos,              \* number of rows the parser has emitted
  stream,           \* "streaming", "ended", "errored" (parser error handled),
                    \* "crashed" (unhandled 'error' of the read stream)
  handler,          \* per row, the state of its async data handler
  posts,            \* the calls of axios.post, in order
  creationResults,  \* the accumulator
  reports,          \* the documents written by generatePdfReport, in order
  origin,           \* history: for each accumulator entry, its row (0: none)
  settled           \* history: per row, the settlement of its POST

vars == <<file, pos, stream, handler, posts, creationResults, reports, origin, settled>>

Pending == [ok |-> FALSE, hasResponse |-> FALSE, data |-> NoBody,
            message |-> <<"<pending>">>]

InitRun ==
  /\ pos = 0
  /\ stream = "streaming"
  /\ handler = [i \in 1..Len(file) |-> "idle"]
  /\ posts = <<>>
  /\ creationResults = <<>>
  /\ reports = <<>>
  /\ origin = <<>>
  /\ settled = [i \in 1..Len(file) |-> Pending]

Init == file \in SampleFiles /\ InitRun

InitE2E == file = E2EFile /\ InitRun

InitMapper == file \in {<<r>> : r \in MapperRows} /\ InitRun

\* -------------------------------------------------------------- actions
\* the data handler as it would be if the reader were paused until the
\* previous row's submission has settled
DataHandler_Awaited ==
  /\ stream = "streaming"
  /\ pos < Len(file)
  /\ \A j \in 1..Len(file) : handler[j] # "awaiting"
  /\ LET i == pos + 1
         row == file[i]
         objectType == OptTrimLower(row.objectType)
     IN IF IsInvalidObject(objectType)
        THEN /\ creationResults' = Append(creationResults, InvalidRecord(row))
             /\ origin' = Append(origin, i)
             /\ handler' = [handler EXCEPT ![i] = "returned"]
             /\ UNCHANGED posts
        ELSE /\ posts' = Append(posts, [row |-> i,
                                        objectType |-> objectType,
                                        url |-> BASE_URLS(objectType),
                                        data |-> BuildDefinition(row)])
             /\ handler' = [handler EXCEPT ![i] = "awaiting"]
             /\ UNCHANGED <<creationResults, origin>>
  /\ pos' = pos + 1
  /\ UNCHANGED <<file, stream, reports, settled>>

\* the data handler without the return that ends the invalid branch
DataHandler_NoReturn ==
  /\ stream = "streaming"
  /\ pos < Len(file)
  /\ LET i == pos + 1
         row == file[i]
         objectType == OptTrimLower(row.objectType)
     IN /\ IF IsInvalidObject(objectType)
           THEN /\ creationResults' = Append(creationResults, InvalidRecord(row))
                /\ origin' = Append(origin, i)
           ELSE UNCHANGED <<creationResults, origin>>
        /\ posts' = Append(posts, [row |-> i,
                                   objectType |-> objectType,
                                   url |-> BASE_URLS(objectType),
                                   data |-> BuildDefinition(row)])
        /\ handler' = [handler EXCEPT ![i] = "awaiting"]
  /\ pos' = pos + 1
  /\ UNCHANGED <<file, stream, reports, settled>>

\* 'data': the handler runs synchronously up to the await of axios.post
\* inside createProperty, or to its early return
DataHandler ==
  /\ stream = "streaming"
  /\ pos < Len(file)
  /\ LET i == pos + 1
         row == file[i]
         objectType == OptTrimLower(row.objectType)
     IN IF IsInvalidObject(objectType)
        THEN /\ creationResults' = Append(creationResults, InvalidRecord(row))
             /\ origin' = Append(origin, i)
             /\ handler' = [handler EXCEPT ![i] = "returned"]
             /\ UNCHANGED posts
        ELSE /\ posts' = Append(posts, [row |-> i,
                                        objectType |-> objectType,
                                        url |-> BASE_URLS(objectType),
                                        data |-> BuildDefinition(row)])
             /\ handler' = [handler EXCEPT ![i] = "awaiting"]
             /\ UNCHANGED <<creationResults, origin>>
  /\ pos' = pos + 1
  /\ UNCHANGED <<file, stream, reports, settled>>

\* the settlement as it would be if the import gave up once a row had been
\* recorded as anything but a success
Settle_StopAfterError(i, outcome) ==
  /\ stream # "crashed"
  /\ handler[i] = "awaiting"
  /\ \A k \in 1..Len(creationResults) : creationResults[k].status = STATUS_SUCCESS
  /\ LET post == posts[CHOOSE k \in 1..Len(posts) : posts[k].row = i]
         done == createProperty(post.objectType, post.data, outcome)
     IN /\ creationResults' = creationResults \o done.pushed
        /\ origin' = origin \o [k \in 1..Len(done.pushed) |-> i]
        /\ handler' = [handler EXCEPT ![i] = IF done.threw THEN "rejected"
                                             ELSE "resolved"]
  /\ settled' = [settled EXCEPT ![i] = outcome]
  /\ UNCHANGED <<file, pos, stream, posts, reports>>

\* the settlement as it would be if a failed POST were sent once more
Settle_RetryOnFailure(i, outcome) ==
  /\ stream # "crashed"
  /\ handler[i] = "awaiting"
  /\ LET post == posts[CHOOSE k \in 1..Len(posts) : posts[k].row = i]
         done == createProperty(post.objectType, post.data, outcome)
         first == Cardinality({k \in 1..Len(posts) : posts[k].row = i}) = 1
     IN IF ~outcome.ok /\ first
        THEN /\ posts' = Append(posts, post)
             /\ UNCHANGED <<creationResults, origin, handler, settled>>
        ELSE /\ creationResults' = creationResults \o done.pushed
             /\ origin' = origin \o [k \in 1..Len(done.pushed) |-> i]
             /\ handler' = [handler EXCEPT ![i] = IF done.threw THEN "rejected"
                                                  ELSE "resolved"]
             /\ settled' = [settled EXCEPT ![i] = outcome]
             /\ UNCHANGED posts
  /\ UNCHANGED <<file, pos, stream, reports>>

\* the POST of row i settles and createProperty runs to its end
Settle(i, outcome) ==
  /\ stream # "crashed"
  /\ handler[i] = "awaiting"
  /\ LET post == posts[CHOOSE k \in 1..Len(posts) : posts[k].row = i]
         done == createProperty(post.objectType, post.data, outcome)
     IN /\ creationResults' = creationResults \o done.pushed
        /\ origin' = origin \o [k \in 1..Len(done.pushed) |-> i]
        /\ handler' = [handler EXCEPT ![i] = IF done.threw THEN "rejected"
                                             ELSE "resolved"]
  /\ settled' = [settled EXCEPT ![i] = outcome]
  /\ UNCHANGED <<file, pos, stream, posts, reports>>

\* the end handler as it would be if the report were joined with the
\* submissions in flight
EndHandler_Joined ==
  /\ stream = "streaming"
  /\ pos = Len(file)
  /\ \A i \in 1..Len(file) : handler[i] # "awaiting"
  /\ stream' = "ended"
  /\ reports' = Append(reports, generatePdfReport(creationResults))
  /\ UNCHANGED <<file, pos, handler, posts, creationResults, origin, settled>>

\* 'end' of the parser
EndHandler ==
  /\ stream = "streaming"
  /\ pos = Len(file)
  /\ stream' = "ended"
  /\ reports' = Append(reports, generatePdfReport(creationResults))
  /\ UNCHANGED <<file, pos, handler, posts, creationResults, origin, settled>>

\* 'error' of the parser, which carries the listener
ErrorHandler(message) ==
  /\ stream = "streaming"
  /\ LET critical == [objectType |-> NA,
                      name |-> <<"Erro de Leitura CSV">>,
                      label |-> NA,
                      status |-> STATUS_CRITICAL,
                      errorMessage |-> <<"Erro ao ler o arquivo CSV: ">> \o message]
     IN /\ creationResults' = Append(creationResults, critical)
        /\ reports' = Append(reports, generatePdfReport(creationResults'))
  /\ origin' = Append(origin, 0)
  /\ stream' = "errored"
  /\ UNCHANGED <<file, pos, handler, posts, settled>>

\* 'error' of fs.createReadStream: pipe() returns the parser, so the read
\* stream has no 'error' listener; the event is thrown as an uncaught
\* exception and the process exits
ReadStreamError ==
  /\ stream = "streaming"
  /\ stream' = "crashed"
  /\ UNCHANGED <<file, pos, handler, posts, creationResults, reports, origin, settled>>

Next ==
  \/ DataHandler
  \/ \E i \in 1..Len(file), outcome \in Outcomes : Settle(i, outcome)
  \/ EndHandler
  \/ \E message \in ParserErrors : ErrorHandler(message)
  \/ ReadStreamError

Spec == Init /\ [][Next]_vars

SpecE2E == InitE2E /\ [][Next]_vars

SpecMapper == InitMapper /\ [][Next]_vars

\* ------------------------------------------------------------ histories
\* accumulator entries that belong to row i
RecordsOf(i) == {k \in 1..Len(creationResults) : origin[k] = i}

CriticalEntries == {k \in 1..Len(creationResults) :
                      creationResults[k].status = STATUS_CRITICAL}

\* rows whose processing has completed
Completed == {i \in 1..Len(file) : handler[i] \in {"returned", "resolved", "rejected"}}

Awaiting == {i \in 1..Len(file) : handler[i] = "awaiting"}

PostsOf(i) == {k \in 1..Len(posts) : posts[k].row = i}

\* ------------------------------------------------------------------- C1
\* C1: the accumulator holds one entry per completed row plus the critical
\* error entries, of which there is at most one; its length never exceeds
\* the number of emitted rows plus one.
C1_AccumulatorLength ==
  /\ Len(creationResults) = Cardinality(Completed) + Cardinality(CriticalEntries)
  /\ Cardinality(CriticalEntries) <= 1
  /\ Len(creationResults) <= pos + 1

C1_Witness ==
  /\ Cardinality(CriticalEntries) = 1
  /\ \E i \in 1..Len(file) : handler[i] = "returned"
  /\ \E i \in 1..Len(file) : handler[i] = "resolved" /\ ~settled[i].ok
  /\ Len(creationResults) = pos + 1

\* ------------------------------------------------------------------- C2
\* C2: every emitted row whose trimmed, lower-cased objectType is missing,
\* blank or not one of contact, deal, ticket gets exactly one InvalidObject
\* record and axios.post is never called for it.
C2_InvalidObjectNoPost ==
  \A i \in 1..pos :
    LET objectType == OptTrimLower(file[i].objectType)
    IN (objectType = Undefined \/ objectType = <<>> \/ objectType \notin BaseUrlKeys)
       => /\ Cardinality(RecordsOf(i)) = 1
          /\ \A k \in RecordsOf(i) : creationResults[k].status = STATUS_INVALID
          /\ PostsOf(i) = {}

\* ------------------------------------------------------------------- C3
\* C3: for the three-row file (valid contact, invalid object type,
\* enumeration deal), once the stream has ended and every submission has
\* settled, there are 3 records and one report that lists all three.
C3_EndToEnd ==
  (file = E2EFile /\ stream = "ended" /\ Awaiting = {})
  => /\ Len(creationResults) = 3
     /\ Len(reports) = 1
     /\ \A r \in 1..Len(reports) : Len(reports[r].blocks) = 3

\* ------------------------------------------------------------------- C4
\* C4: every createProperty call whose POST has settled (2xx, non-2xx or
\* network failure) has appended exactly one record, a call still awaiting
\* has appended none, and no call lets an exception out.
C4_OneRecordNoThrow ==
  \A i \in 1..Len(file) :
    /\ handler[i] # "rejected"
    /\ settled[i] # Pending => Cardinality(RecordsOf(i)) = 1
    /\ handler[i] = "awaiting" => RecordsOf(i) = {}

C4_Witness ==
  /\ \E i \in 1..Len(file) : settled[i].ok /\ Cardinality(RecordsOf(i)) = 1
  /\ \E i \in 1..Len(file) :
       /\ settled[i] # Pending
       /\ ~settled[i].ok
       /\ ~settled[i].hasResponse
       /\ Cardinality(RecordsOf(i)) = 1

\* ------------------------------------------------------------------- C5
\* C5: the record of a settled createProperty call is Success with an empty
\* message exactly when the POST returned 2xx; otherwise it is Failure and
\* its message is the (JSON-serialised) response body when the error carries
\* a non-empty one, else the exception text.  Its objectType, name and label
\* are the normalised ones of the row.
C5_RecordContent ==
  \A k \in 1..Len(creationResults) :
    LET i == origin[k]
        r == creationResults[k]
    IN (i > 0 /\ settled[i] # Pending)
       => LET o == settled[i]
              hasBody == /\ o.hasResponse
                         /\ o.data.kind # "none"
                         /\ o.data.text # <<>> \/ o.data.kind = "object"
          IN /\ (r.status = STATUS_SUCCESS /\ r.errorMessage = <<>>) <=> o.ok
             /\ ~o.ok => /\ r.status = STATUS_FAILURE
                         /\ hasBody => r.errorMessage = JSONStringify(o.data)
                         /\ ~hasBody => r.errorMessage = o.message
             /\ r.objectType = toLowerCase(trim(file[i].objectType))
             /\ r.name = OptTrim(file[i].name)
             /\ r.label = OptTrim(file[i].label)

C5_Witness ==
  /\ \E k \in 1..Len(creationResults) :
       /\ origin[k] > 0
       /\ settled[origin[k]].ok
       /\ creationResults[k].status = STATUS_SUCCESS
       /\ creationResults[k].name # file[origin[k]].name
  /\ \E k \in 1..Len(creationResults) :
       /\ origin[k] > 0
       /\ settled[origin[k]].data.kind = "object"
       /\ creationResults[k].status = STATUS_FAILURE
       /\ creationResults[k].errorMessage # settled[origin[k]].message

\* ------------------------------------------------------------------- C6
\* C6: no report is written while the stream is still emitting rows; once
\* the reader has ended or failed, exactly one report has been written, and
\* it renders the records accumulated when it was written.
C6_ReportExactlyOnce ==
  /\ stream = "streaming" => reports = <<>>
  /\ stream # "streaming" => Len(reports) = 1
  /\ \A r \in 1..Len(reports) :
       /\ Len(reports[r].blocks) <= Len(creationResults)
       /\ \A k \in 1..Len(reports[r].blocks) :
            reports[r].blocks[k] = ReportBlock(creationResults[k])

\* ------------------------------------------------------------------- C7
\* C7: when the input stream has failed (read stream or parser), the
\* accumulator holds exactly one CriticalError record and one report has
\* been written that contains it after all records accumulated before it.
C7_StreamFailureReported ==
  stream \in {"errored", "crashed"}
  => /\ Cardinality(CriticalEntries) = 1
     /\ Len(reports) = 1
     /\ \A r \in 1..Len(reports) :
          \A c \in CriticalEntries :
            /\ Len(reports[r].blocks) = c
            /\ \A k \in 1..c : reports[r].blocks[k] = ReportBlock(creationResults[k])

\* ------------------------------------------------------------------- C8
\* C8: a run that can make no further step has a record for every emitted
\* row and has produced its report; no error leaves the run without one.
Terminated ==
  \/ stream = "crashed"
  \/ stream \in {"ended", "errored"} /\ Awaiting = {}

C8_NoCrashWithoutReport ==
  Terminated => /\ \A i \in 1..pos : RecordsOf(i) # {}
                /\ reports # <<>>

\* ------------------------------------------------------------------- C9
\* C9: for a row of type enumeration with a non-empty options string the
\* submitted options list has one element per '|'-separated piece, in order,
\* with label = trimmed piece, first character upper-cased, and value =
\* trimmed piece lower-cased; "Yes|No" gives Yes/yes, No/no.
BarsBefore(s, p) == Cardinality({q \in 1..(p-1) : s[q] = "|"})

\* position of the n-th '|' of s; 0 for n = 0, Len(s)+1 past the last one
BarAt(s, n) ==
  IF n = 0 THEN 0
  ELSE IF n > BarsBefore(s, Len(s) + 1) THEN Len(s) + 1
  ELSE CHOOSE p \in 1..Len(s) : s[p] = "|" /\ BarsBefore(s, p) = n - 1

PieceAt(s, n) == SubSeq(s, BarAt(s, n - 1) + 1, BarAt(s, n) - 1)

Capitalized(t) == IF t = <<>> THEN <<>> ELSE <<UpperChar(t[1])>> \o Tail(t)

C9_EnumerationOptions ==
  \A k \in 1..Len(posts) :
    LET row == file[posts[k].row]
        s == row.options
    IN (OptTrim(row.type) = S_enumerationT /\ s # Undefined /\ s # <<>>)
       => /\ "options" \in DOMAIN posts[k].data
          /\ LET opts == posts[k].data.options
             IN /\ Len(opts) = BarsBefore(s, Len(s) + 1) + 1
                /\ \A n \in 1..Len(opts) :
                     /\ opts[n].label = Capitalized(trim(PieceAt(s, n)))
                     /\ opts[n].value = toLowerCase(trim(PieceAt(s, n)))
                /\ s = S_YesNo =>
                     opts = << [label |-> <<"Y","e","s">>, value |-> <<"y","e","s">>],
                               [label |-> <<"N","o">>, value |-> <<"n","o">>] >>

C9_Witness ==
  \E k \in 1..Len(posts) :
    /\ file[posts[k].row].options = <<"a","|","B">>
    /\ file[posts[k].row].type = S_enumerationT \o <<" ">>
    /\ "options" \in DOMAIN posts[k].data
    /\ Len(posts[k].data.options) = 2

\* ------------------------------------------------------------------ C10
\* C10: the submitted definition carries numberDisplayHint exactly when the
\* row's trimmed type and trimmed fieldType are both number, and carries
\* options only when the trimmed type is enumeration.
C10_DisplayHint ==
  \A k \in 1..Len(posts) :
    LET row == file[posts[k].row]
    IN /\ "numberDisplayHint" \in DOMAIN posts[k].data
          <=> (OptTrim(row.type) = S_numberT /\ OptTrim(row.fieldType) = S_numberT)
       /\ "options" \in DOMAIN posts[k].data => OptTrim(row.type) = S_enumerationT

C10_Witness ==
  /\ \E k \in 1..Len(posts) :
       /\ file[posts[k].row].type = <<" ">> \o S_numberT
       /\ file[posts[k].row].fieldType = S_numberT \o <<"\t">>
       /\ "numberDisplayHint" \in DOMAIN posts[k].data
       /\ "options" \notin DOMAIN posts[k].data

\* ------------------------------------------------------------------ C11
\* C11: every report is written from the accumulator as it is at that
\* moment and shows the placeholder exactly when that accumulator is empty;
\* a stream that ends after zero rows gives a report with the placeholder
\* and no blocks, from an empty accumulator.
C11_Placeholder ==
  [][reports' # reports =>
       LET doc == reports'[Len(reports')]
       IN /\ Len(reports') = Len(reports) + 1
          /\ doc.placeholder <=> creationResults' = <<>>
          /\ Len(doc.blocks) = Len(creationResults')
          /\ (stream' = "ended" /\ pos' = 0) =>
               /\ creationResults' = <<>>
               /\ doc.placeholder
               /\ doc.blocks = <<>>]_vars

C11_Witness ==
  /\ file = <<>>
  /\ stream = "ended"
  /\ creationResults = <<>>
  /\ Len(reports) = 1
  /\ reports[1].placeholder

\* ------------------------------------------------------------------ C12
\* C12: the end event is never held back by submissions in flight; the
\* report it writes is not rewritten afterwards, so every record appended
\* after it (always the record of a submitted row) is missing from it.
C12_ReportDoesNotWait ==
  /\ (stream = "streaming" /\ pos = Len(file)) => ENABLED EndHandler
  /\ stream = "ended" =>
       /\ Len(reports) = 1
       /\ \A r \in 1..Len(reports) :
            /\ Len(reports[r].blocks) <= Len(creationResults)
            /\ \A k \in (Len(reports[r].blocks) + 1)..Len(creationResults) :
                 /\ PostsOf(origin[k]) # {}
                 /\ creationResults[k].status \in {STATUS_SUCCESS, STATUS_FAILURE}

\* the race: the report exists, a valid row was in flight when it was
\* written and its record has been appended since
C12_Witness ==
  /\ stream = "ended"
  /\ Len(reports) = 1
  /\ \E k \in 1..Len(creationResults) :
       /\ k > Len(reports[1].blocks)
       /\ handler[origin[k]] = "resolved"
       /\ OptTrimLower(file[origin[k]].objectType) \in BaseUrlKeys

\* ------------------------------------------------------------------ C13
\* C13: each row moves Received -> InvalidObject, or Received -> Submitted
\* -> Success | Failure.  No row has both an InvalidObject record and a POST,
\* no row has a Success or Failure record without a POST, and a row in a
\* terminal state keeps its state and its single record.
C13_RowInvariant ==
  \A i \in 1..Len(file) :
    /\ Cardinality(RecordsOf(i)) <= 1
    /\ handler[i] = "idle" <=> i > pos
    /\ handler[i] = "returned" <=>
         \E k \in RecordsOf(i) : creationResults[k].status = STATUS_INVALID
    /\ handler[i] = "returned" => PostsOf(i) = {}
    /\ handler[i] = "resolved" <=>
         \E k \in RecordsOf(i) :
           creationResults[k].status \in {STATUS_SUCCESS, STATUS_FAILURE}
    /\ handler[i] \in {"awaiting", "resolved"} <=> PostsOf(i) # {}
    /\ handler[i] = "awaiting" => RecordsOf(i) = {}

C13_RowStep ==
  \A i \in 1..Len(file) :
    /\ handler[i] = "idle" => handler'[i] \in {"idle", "returned", "awaiting"}
    /\ handler[i] = "awaiting" => handler'[i] \in {"awaiting", "resolved"}
    /\ handler[i] \in {"returned", "resolved"} =>
         /\ handler'[i] = handler[i]
         /\ \A k \in 1..Len(creationResults) :
              origin[k] = i => /\ k <= Len(creationResults')
                               /\ origin'[k] = i
                               /\ creationResults'[k] = creationResults[k]
         /\ \A k \in 1..Len(creationResults') :
              origin'[k] = i => k <= Len(creationResults)

C13_RowStateMachine == []C13_RowInvariant /\ [][C13_RowStep]_vars

C13_Witness ==
  /\ \E i \in 1..Len(file) : handler[i] = "returned" /\ Cardinality(RecordsOf(i)) = 1
  /\ \E i \in 1..Len(file) :
       /\ handler[i] = "resolved"
       /\ \E k \in RecordsOf(i) : creationResults[k].status = STATUS_FAILURE
  /\ stream = "ended"

\* ------------------------------------------------------------------ C14
\* C14: the reader emits the next row while the submission of the row it
\* has just emitted is still in flight,
\* and any submission in flight may settle next, whatever its row's place in
\* the file; so records can enter the accumulator out of row order.
C14_ReaderDoesNotWait ==
  /\ (stream = "streaming" /\ 0 < pos /\ pos < Len(file) /\ pos \in Awaiting)
     => ENABLED DataHandler
  /\ stream # "crashed" =>
       \A i \in Awaiting : ENABLED (\E outcome \in Outcomes : Settle(i, outcome))

\* the record of a later valid row precedes the record of an earlier one
C14_Witness ==
  \E k1, k2 \in 1..Len(creationResults) :
    /\ k1 < k2
    /\ origin[k1] > origin[k2]
    /\ origin[k2] > 0
    /\ OptTrimLower(file[origin[k1]].objectType) \in BaseUrlKeys
    /\ OptTrimLower(file[origin[k2]].objectType) \in BaseUrlKeys

\* ------------------------------------------------------------------ C15
\* C15: every step leaves creationResults unchanged or appends exactly one
\* record at its end, keeping every existing record in place; the step of
\* the end handler, which only generates the report, leaves it unchanged,
\* and a report is always the rendering of the accumulator the step leaves.
C15_AppendOnly ==
  [][/\ \/ creationResults' = creationResults
        \/ /\ Len(creationResults') = Len(creationResults) + 1
           /\ SubSeq(creationResults', 1, Len(creationResults)) = creationResults
     /\ (reports' # reports /\ stream' = "ended") => creationResults' = creationResults
     /\ reports' # reports =>
          reports'[Len(reports')].blocks =
            [k \in 1..Len(creationResults') |-> ReportBlock(creationResults'[k])]
    ]_vars

C15_Witness ==
  /\ Len(creationResults) >= 2
  /\ stream = "ended"
  /\ Len(reports) = 1
  /\ Len(reports[1].blocks) = 1
  /\ \E i \in 1..Len(file) : handler[i] = "resolved" /\ ~settled[i].ok

\* ------------------------------------------------------------------ C16
\* C16: while rows are recorded as InvalidObject or Failure, every
\* submission in flight can still settle; the step that handles or settles a
\* row leaves the state, POST and record of every other row as they are, and
\* what it posts is determined by that row alone and what it records by
\* that row's own POST and its settlement alone.
C16_StillSettles ==
  (/\ stream # "crashed"
   /\ \E k \in 1..Len(creationResults) :
        creationResults[k].status \in {STATUS_INVALID, STATUS_FAILURE})
  => \A i \in Awaiting : ENABLED (\E outcome \in Outcomes : Settle(i, outcome))

C16_OwnRowOnly ==
  \A i \in 1..Len(file) :
    /\ handler'[i] = handler[i] =>
         /\ settled'[i] = settled[i]
         /\ \A k \in 1..Len(creationResults') :
              origin'[k] = i => k <= Len(creationResults)
         /\ \A k \in 1..Len(posts') : posts'[k].row = i => k <= Len(posts)
    /\ (handler[i] = "idle" /\ handler'[i] = "returned") =>
         /\ i = pos + 1
         /\ creationResults' = Append(creationResults, InvalidRecord(file[i]))
         /\ posts' = posts
    /\ (handler[i] = "idle" /\ handler'[i] = "awaiting") =>
         /\ i = pos + 1
         /\ creationResults' = creationResults
         /\ Len(posts') = Len(posts) + 1
         /\ posts'[Len(posts')].row = i
         /\ posts'[Len(posts')].objectType = OptTrimLower(file[i].objectType)
         /\ posts'[Len(posts')].data = BuildDefinition(file[i])
    /\ (handler[i] = "awaiting" /\ handler'[i] # "awaiting") =>
         /\ posts' = posts
         /\ \A k \in PostsOf(i) :
              creationResults' =
                creationResults \o
                  createProperty(posts[k].objectType, posts[k].data,
                                 settled'[i]).pushed

C16_RowsIndependent ==
  /\ []C16_StillSettles
  /\ [][/\ SubSeq(creationResults', 1, Len(creationResults)) = creationResults
        /\ SubSeq(posts', 1, Len(posts)) = posts
        /\ C16_OwnRowOnly]_vars

C16_Witness ==
  /\ Len(file) = 2
  /\ handler[1] = "resolved" /\ ~settled[1].ok
  /\ handler[2] = "resolved" /\ settled[2].ok
  /\ \E k \in RecordsOf(2) : creationResults[k].status = STATUS_SUCCESS
  /\ \E k \in RecordsOf(1) : creationResults[k].status = STATUS_FAILURE

\* ------------------------------------------------------------------ C17
\* C17: the step that emits a row whose object kind is contact, deal or
\* ticket sends one POST for it, to the endpoint configured for that kind;
\* no row ever has more than one POST, a POST is never withdrawn, and a
\* failed one is followed by a Failure record, never by a second POST.
ConfiguredEndpoint(kind) ==
  IF kind = S_contact
  THEN <<"https://api.hubapi.com/properties/v1/contacts/properties">>
  ELSE IF kind = S_deal
  THEN <<"https://api.hubspot.com/properties/v1/deals/properties">>
  ELSE <<"https://api.hubspot.com/crm/v3/properties/tickets">>

C17_PostInvariant ==
  \A i \in 1..Len(file) :
    /\ Cardinality(PostsOf(i)) <= 1
    /\ i > pos => PostsOf(i) = {}
    /\ (settled[i] # Pending /\ ~settled[i].ok) =>
         /\ handler[i] = "resolved"
         /\ \E k \in RecordsOf(i) : creationResults[k].status = STATUS_FAILURE

C17_PostStep ==
  /\ \/ posts' = posts
     \/ /\ Len(posts') = Len(posts) + 1
        /\ SubSeq(posts', 1, Len(posts)) = posts
  /\ (\E i \in 1..Len(file) : handler[i] = "awaiting" /\ handler'[i] # "awaiting")
     => posts' = posts
  /\ pos' # pos =>
       LET kind == OptTrimLower(file[pos'].objectType)
       IN /\ pos' = pos + 1
          /\ kind \in BaseUrlKeys =>
               /\ Len(posts') = Len(posts) + 1
               /\ posts'[Len(posts')].row = pos'
               /\ posts'[Len(posts')].url = ConfiguredEndpoint(kind)

C17_OnePostPerValidRow == []C17_PostInvariant /\ [][C17_PostStep]_vars

C17_Witness ==
  \E i \in 1..Len(file) :
    /\ OptTrimLower(file[i].objectType) = S_deal
    /\ handler[i] = "resolved"
    /\ ~settled[i].ok
    /\ Cardinality(PostsOf(i)) = 1
    /\ stream = "ended"

\* ------------------------------------------------------------------ C18
\* C18: the record of a row recorded as InvalidObject is in every generated
\* report (the row was emitted before the end / error event), and it
\* precedes the record of every submitted row that comes later in the file.
C18_InvalidRowsReported ==
  \A i \in 1..Len(file) :
    handler[i] = "returned" =>
      /\ \A r \in 1..Len(reports) :
           \E k \in RecordsOf(i) :
             /\ k <= Len(reports[r].blocks)
             /\ reports[r].blocks[k] = ReportBlock(InvalidRecord(file[i]))
      /\ \A j \in (i + 1)..Len(file) :
           PostsOf(j) # {} =>
             \A kj \in RecordsOf(j) : \E ki \in RecordsOf(i) : ki < kj

C18_Witness ==
  /\ Len(file) = 2
  /\ handler[1] = "returned"
  /\ handler[2] = "resolved"
  /\ stream = "ended"
  /\ Len(reports) = 1
  /\ Len(reports[1].blocks) = 1

\* ------------------------------------------------------------------ C19
\* C19: the definition submitted for a row of type enumeration whose options
\* column is empty or missing has no options key at all.
C19_NoOptionsWhenEmpty ==
  \A k \in 1..Len(posts) :
    LET row == file[posts[k].row]
    IN (OptTrim(row.type) = S_enumerationT /\ row.options \in {<<>>, Undefined})
       => /\ "options" \notin DOMAIN posts[k].data
          /\ DOMAIN posts[k].data = {"name", "label", "description", "groupName",
                                     "type", "fieldType", "formField"}

C19_Witness ==
  \E k \in 1..Len(posts) :
    /\ file[posts[k].row].type = S_enumerationT
    /\ file[posts[k].row].options = <<>>
    /\ "options" \notin DOMAIN posts[k].data
    /\ handler[posts[k].row] = "resolved"

====
